---------------------------- MODULE Spec2Model ----------------------------
(***************************************************************************)
(* Model of pypuf's reliability based CMA-ES learner                       *)
(* (src/pypuf/learner/evolution_strategies/becker.py).                     *)
(*                                                                         *)
(* Spec      : construction of Reliability_based_CMA_ES followed by        *)
(*             learn(), with learn_LTF unrolled generation by generation.  *)
(* SpecDedup : is_correlated applied to bounded response tables.           *)
(* SpecCM    : the covariance slice of one chain search                    *)
(*             (get_parent, get_cm_mu, cumulation_for_cm, update_cm)       *)
(*             in exact rational arithmetic.                               *)
(*                                                                         *)
(* Numbers.  priorities are counted in halves (0.5, 1.0, 1.5 are exact     *)
(* floats), weights are small integers, a Pearson coefficient is kept as   *)
(* its sign and its square (a reduced fraction) or as NaN.                 *)
(***************************************************************************)
EXTENDS Integers, Sequences, FiniteSets, TLC

VARIABLES
    cfg,             \* the constructor's arguments (instance.n, instance.k, ...)
    pc,              \* position of the program
    err,             \* the exception that ended the program, "none" otherwise
    num_of_LTFs,     \* self.num_of_LTFs
    different_LTFs,  \* self.different_LTFs, instance.k rows of length n
    individuals,     \* self.individuals, pop_size rows of length n
    reliabilities,   \* fitness's local reliabilities
    correlations,    \* learn_LTF's local correlations
    new_LTF,         \* learn_LTF's local new_LTF / learn's new_LTF
    x,               \* learn_LTF's local generation counter x
    dist,            \* self.mean, path_cm, path_ss, cov_matrix, step_size
    sampled,         \* TRUE once reproduce has drawn a population
    oracle_used,     \* TRUE once instance.eval has been called
    searches,        \* number of learn_LTF calls made by learn
    parent,          \* learn_LTF's local parent
    reads,           \* the version of self each statement of the last update read
    dedup,           \* outcome of the last is_different_LTF call
    responses,       \* SpecDedup: the response table handed to is_correlated
    correlated,      \* SpecDedup: is_correlated's answer, "none" before the call
    cm,              \* SpecCM: the distribution state of one chain search
    mf,              \* SpecMono: MonomialFactory's arguments and result
    sim              \* a simulation of variants_mlp.py and its last eval

vars == << cfg, pc, err, num_of_LTFs, different_LTFs, individuals,
           reliabilities, correlations,
           new_LTF, x, dist, sampled, oracle_used, searches, parent, reads,
           dedup, responses, correlated, cm, mf, sim >>

-----------------------------------------------------------------------------
(* Bounds of the model *)

MaxK == 2
MaxPrioLen == 2
MaxPrioUnit == 2
MaxGen == 2

\* instance.n: 0 gives n = 1 (c_1 = 2 > 1), 2 is the shortest challenge for
\* which a predicted reliability signature can vary over a batch
InstNs == 0..2
\* pop_size: negative, empty, a single individual, several individuals
PopSizes == -1..2
ParentSizes == -1..MaxPrioLen
\* what reproduce draws: a weight per challenge bit and the trailing epsilon
\* (the normal distribution gives every real vector positive density)
Weights == {-1, 1}
Epsilons == {1}
\* precision as a fraction num/den
Precisions == { [num |-> 1, den |-> 2], [num |-> 1, den |-> 1] }
ChallengeNums == {2}
Repeats == {2}

-----------------------------------------------------------------------------
(* Arithmetic helpers *)

Abs(a) == IF a < 0 THEN -a ELSE a

RECURSIVE Gcd(_, _)
Gcd(a, b) == IF b = 0 THEN Abs(a) ELSE Gcd(b, a % b)

RECURSIVE SumSeq(_)
SumSeq(s) == IF s = << >> THEN 0 ELSE Head(s) + SumSeq(Tail(s))

SeqsUpTo(S, m) == UNION { [1..l -> S] : l \in 0..m }

\* int(v) for the fraction num/den, den > 0: truncation towards zero
IntTrunc(num, den) == IF num >= 0 THEN num \div den ELSE -((-num) \div den)

Zeros(m) == [j \in 1..m |-> 0]

PermutationsOf(m) == { f \in [1..m -> 1..m] : \A a, b \in 1..m : a # b => f[a] # f[b] }


-----------------------------------------------------------------------------
(* Reliability_based_CMA_ES.__init__ *)

Configs ==
    [ inst_n        : InstNs,
      k             : 1..MaxK,
      pop_size      : PopSizes,
      parent_size   : ParentSizes,
      priorities    : SeqsUpTo(1..MaxPrioUnit, MaxPrioLen),
      challenge_num : ChallengeNums,
      repeat        : Repeats,
      precision     : Precisions ]

\* self.n = instance.n + 1
N(c) == c.inst_n + 1

\* np.sum(np.square(priorities)), in quarters (priorities are in halves)
SumSquares(p) == SumSeq([i \in 1..Len(p) |-> p[i] * p[i]])

\* self.mu_w = 1 / np.sum(np.square(priorities)); den = 0 stands for inf
mu_w(p) == [num |-> 4, den |-> SumSquares(p)]

\* self.c_mu = self.mu_w / self.n**2
c_mu(p, n) == [num |-> mu_w(p).num, den |-> mu_w(p).den * n * n]

\* self.c_1 = 2 / self.n**2
c_1(n) == [num |-> 2, den |-> n * n]

\* a + b <= 1 for fractions with non-negative denominators (den = 0 is inf)
SumLeqOne(a, b) ==
    /\ a.den # 0
    /\ b.den # 0
    /\ a.num * b.den + b.num * a.den <= a.den * b.den

\* assert len(priorities) == parent_size
LenOk(c) == Len(c.priorities) = c.parent_size

\* assert int(np.ndarray.sum(priorities)) == 1
SumOk(c) == IntTrunc(SumSeq(c.priorities), 2) = 1

\* assert (self.c_1 + self.c_mu <= 1)
CSumOk(c) == SumLeqOne(c_1(N(c)), c_mu(c.priorities, N(c)))

ConfigErrors == { "ValueError_23", "AssertionError_41", "AssertionError_42",
                  "AssertionError_43" }

\* __init__ without its last assert
ConstructError_NoCSum(c) ==
    IF c.pop_size < 0 THEN "ValueError_23"
    ELSE IF ~LenOk(c) THEN "AssertionError_41"
    ELSE IF ~SumOk(c) THEN "AssertionError_42"
    ELSE "none"

\* the first statement of __init__ that raises, "none" if the engine is built:
\* np.zeros((pop_size, n)) rejects a negative dimension, then the three asserts
ConstructError(c) ==
    IF c.pop_size < 0 THEN "ValueError_23"
    ELSE IF ~LenOk(c) THEN "AssertionError_41"
    ELSE IF ~SumOk(c) THEN "AssertionError_42"
    ELSE IF ~CSumOk(c) THEN "AssertionError_43"
    ELSE "none"

\* mean, path_cm, path_ss, cov_matrix, step_size: each field holds the number
\* of updates applied to its initial value (zeros, identity, 1)
InitialDist == [mean |-> 0, path_cm |-> 0, path_ss |-> 0, cov_matrix |-> 0,
                step_size |-> 0]

NoFitness == << >>

NoParent == << >>

\* no update has run
NoReads == [update_mean |-> 0, cumulation_for_cm |-> 0, cumulation_for_ss |-> 0,
            update_cm |-> 0, update_ss |-> 0]

\* no MonomialFactory call
NoFactory == [k |-> 0]

\* no simulation of variants_mlp.py
NoSimulation == [class |-> "none"]

Idle ==
    /\ responses = << >>
    /\ correlated = "none"
    /\ cm = [gen |-> 0]
    /\ mf = NoFactory
    /\ sim = NoSimulation

Init ==
    /\ cfg \in Configs
    /\ pc = "new"
    /\ err = "none"
    /\ num_of_LTFs = 0
    /\ different_LTFs = << >>
    /\ individuals = << >>
    /\ reliabilities = NoFitness
    /\ correlations = NoFitness
    /\ new_LTF = << >>
    /\ x = 0
    /\ dist = InitialDist
    /\ sampled = FALSE
    /\ oracle_used = FALSE
    /\ searches = 0
    /\ parent = NoParent
    /\ reads = NoReads
    /\ dedup = "none"
    /\ Idle

Construct ==
    /\ pc = "new"
    /\ IF ConstructError(cfg) # "none"
       THEN /\ pc' = "raised"
            /\ err' = ConstructError(cfg)
            /\ UNCHANGED << num_of_LTFs, different_LTFs, individuals, dist >>
       ELSE /\ pc' = "learn"
            /\ err' = "none"
            /\ num_of_LTFs' = 0
            /\ different_LTFs' = [i \in 1..cfg.k |-> Zeros(N(cfg))]
            /\ individuals' = [i \in 1..cfg.pop_size |-> Zeros(N(cfg))]
            /\ dist' = InitialDist
    /\ UNCHANGED << cfg, sim, parent, reads, reliabilities, correlations, new_LTF, x, sampled,
                    oracle_used, searches, dedup, responses, correlated, cm, mf >>

-----------------------------------------------------------------------------
(* CandidateEvaluator: fitness of a population *)

RECURSIVE ProdFrom(_, _)
\* product of c[j..Len(c)]
ProdFrom(c, j) == IF j > Len(c) THEN 1 ELSE c[j] * ProdFrom(c, j + 1)

\* LTFArray.transform_atf and LTFArray.val for one chain (no bias): the delay
\* difference of weights w[1..len(c)] on the challenge c in {-1,1}^len(c)
val(w, c) == SumSeq([j \in 1..Len(c) |-> w[j] * ProdFrom(c, j)])

\* get_delay_differences: one row per individual, one column per challenge;
\* build_LTFArrays hands individuals[:, :-1] to LTFArray, val never reads w[n]
get_delay_differences(inds, challenges) ==
    [i \in 1..Len(inds) |-> [c \in 1..Len(challenges) |-> val(inds[i], challenges[c])]]

\* get_reliabilities: 1 where |delay_diffs[i, c]| > |epsilons[i]|, else 0
get_reliabilities(delay_diffs, epsilons) ==
    [i \in 1..Len(delay_diffs) |->
        [c \in 1..Len(delay_diffs[i]) |->
            IF Abs(delay_diffs[i][c]) > Abs(epsilons[i]) THEN 1 ELSE 0]]

NaN == [nan |-> TRUE, sgn |-> 0, sq |-> << 0, 1 >>]
ZeroFitness == [nan |-> FALSE, sgn |-> 0, sq |-> << 0, 1 >>]

Sign(a) == IF a > 0 THEN 1 ELSE IF a < 0 THEN -1 ELSE 0

\* np.corrcoef(xs, ys)[0, 1]: covariance over the root of the two variances,
\* NaN (0/0) when either vector is constant
corrcoef(xs, ys) ==
    LET m   == Len(xs)
        sx  == SumSeq(xs)
        sy  == SumSeq(ys)
        sxy == SumSeq([j \in 1..m |-> xs[j] * ys[j]])
        sxx == SumSeq([j \in 1..m |-> xs[j] * xs[j]])
        syy == SumSeq([j \in 1..m |-> ys[j] * ys[j]])
        cv  == m * sxy - sx * sy
        vx  == m * sxx - sx * sx
        vy  == m * syy - sy * sy
        g   == Gcd(cv * cv, vx * vy)
    IN  IF vx = 0 \/ vy = 0 THEN NaN
        ELSE [nan |-> FALSE, sgn |-> Sign(cv),
              sq |-> << (cv * cv) \div g, (vx * vy) \div g >>]

\* np.any(row)
np_any(row) == \E j \in 1..Len(row) : row[j] # 0

\* get_correlations: zeros, overwritten by the Pearson coefficient for every
\* row with np.any(reliabilities[i, :])
get_correlations(rels, measured_rels) ==
    [i \in 1..Len(rels) |->
        IF np_any(rels[i])
        THEN corrcoef(rels[i], measured_rels)
        ELSE ZeroFitness]

\* measure_rels: |sum of the repeat responses| / repeat per challenge, kept as
\* the numerator |sum| (np.corrcoef is unchanged by the positive factor
\* 1 / repeat); the oracle is noisy, so u of the repeat responses to a
\* challenge are +1 for any u
MeasuredRels(challenge_num, repeat) ==
    [1..challenge_num -> { Abs(2 * u - repeat) : u \in 0..repeat }]

\* fitness, up to its local reliabilities: epsilons = individuals[:, -1]
fitness_reliabilities(challenges, inds, n) ==
    get_reliabilities(get_delay_differences(inds, challenges),
                      [i \in 1..Len(inds) |-> inds[i][n]])

\* a comparison that also accepts a fitness equal to precision
Exceeds_Closed(f, prec) ==
    /\ ~f.nan
    /\ IF prec.num >= 0
       THEN f.sgn > 0 /\ f.sq[1] * prec.den * prec.den >= prec.num * prec.num * f.sq[2]
       ELSE f.sgn >= 0 \/ f.sq[1] * prec.den * prec.den <= prec.num * prec.num * f.sq[2]

\* correlations[i] > self.precision; any comparison with NaN is False
Exceeds(f, prec) ==
    /\ ~f.nan
    /\ IF prec.num >= 0
       THEN f.sgn > 0 /\ f.sq[1] * prec.den * prec.den > prec.num * prec.num * f.sq[2]
       ELSE f.sgn >= 0 \/ f.sq[1] * prec.den * prec.den < prec.num * prec.num * f.sq[2]

\* the for loop of learn_LTF: every index whose fitness exceeds precision
\* overwrites new_LTF, so the last such index stays
Winners(corrs, prec) == { i \in 1..Len(corrs) : Exceeds(corrs[i], prec) }

\* the first index instead of the last
Max_Lowest(S) == CHOOSE m \in S : \A o \in S : m <= o

\* the index the last assignment of line 88 was made for
Max(S) == CHOOSE m \in S : \A o \in S : o <= m

-----------------------------------------------------------------------------
(* DeduplicationCheck: is_correlated and is_different_LTF *)

\* np.sum(np.abs(responses[0, :] - responses[i, :])), rows counted from 1
AbsDiffSum(r0, ri) == SumSeq([j \in 1..Len(r0) |-> Abs(r0[j] - ri[j])])

\* is_correlated with the two thresholds included
is_correlated_Closed(resp) ==
    LET challenge_num == IF resp = << >> THEN 0 ELSE Len(resp[1])
    IN  \E i \in 2..Len(resp) :
            \/ 2 * AbsDiffSum(resp[1], resp[i]) <= challenge_num
            \/ 2 * AbsDiffSum(resp[1], resp[i]) >= 3 * challenge_num

\* is_correlated: differences = AbsDiffSum / 2 is compared with
\* 0.25 * challenge_num and 0.75 * challenge_num (both sides times 4)
is_correlated(resp) ==
    LET challenge_num == IF resp = << >> THEN 0 ELSE Len(resp[1])
    IN  \E i \in 2..Len(resp) :
            \/ 2 * AbsDiffSum(resp[1], resp[i]) < challenge_num
            \/ 2 * AbsDiffSum(resp[1], resp[i]) > 3 * challenge_num

\* LTFArray.eval of one chain: the sign of its delay difference
eval(w, c) == Sign(val(w, c))

\* number of axes of the array learn_LTF returns (self.individuals[i, :])
NDim(v) == IF v = << >> \/ v[1] \in Int THEN 1 ELSE 2

\* the response table of is_different_LTF: row 0 the candidate, then one row
\* per accepted chain
ResponseTable(cand, chains, challenges) ==
    [r \in 1..(Len(chains) + 1) |->
        [c \in 1..Len(challenges) |->
            IF r = 1 THEN eval(cand, challenges[c])
            ELSE eval(chains[r - 1], challenges[c])]]

\* is_different_LTF without lines 58-59
is_different_LTF_NoShortcut(cand, num) ==
    IF NDim(cand) < 2 THEN "IndexError_61"
    ELSE IF num + 1 > num THEN "IndexError_67"
    ELSE "compare"

\* is_different_LTF(new_LTF) up to the comparison, statement by statement:
\*   58-59  no accepted chain yet: True
\*   61     new_LTF[:, :-1] indexes two axes of new_LTF
\*   64     responses has num_of_LTFs rows
\*   65-67  rows 0..num_of_LTFs of responses are written
\*   68     not is_correlated(responses)
is_different_LTF(cand, num) ==
    IF num = 0 THEN "True"
    ELSE IF NDim(cand) < 2 THEN "IndexError_61"
    ELSE IF num + 1 > num THEN "IndexError_67"
    ELSE "compare"

-----------------------------------------------------------------------------
(* Exact fractions, get_parent and get_cm_mu *)

\* the fraction a/b, b # 0, reduced and with a positive denominator
Frac(a, b) ==
    LET g == Gcd(a, b)
    IN  IF b > 0 THEN << a \div g, b \div g >> ELSE << (-a) \div g, (-b) \div g >>

\* over the least common denominator, to keep the numbers small
FAdd(p, q) ==
    LET g == Gcd(p[2], q[2])
    IN  Frac(p[1] * (q[2] \div g) + q[1] * (p[2] \div g), (p[2] \div g) * q[2])

FMul(p, q) == Frac(p[1] * q[1], p[2] * q[2])

RECURSIVE FSum(_)
FSum(s) == IF s = << >> THEN << 0, 1 >> ELSE FAdd(Head(s), FSum(Tail(s)))

\* np.identity(n) and np.zeros(n)
Identity(n) == [i \in 1..n |-> [j \in 1..n |-> IF i = j THEN << 1, 1 >> ELSE << 0, 1 >>]]
FZeros(n) == [j \in 1..n |-> << 0, 1 >>]

\* priorities[i], counted in halves
Priority(p, i) == Frac(p[i], 2)

\* get_parent: sum of priorities[i] * sorted_individuals[i, :] over the first
\* parent_size rows
get_parent(sorted_individuals, parent_size, p) ==
    [j \in 1..Len(sorted_individuals[1]) |->
        FSum([i \in 1..parent_size |->
                FMul(Priority(p, i), << sorted_individuals[i][j], 1 >>)])]

\* get_cm_mu: sum of priorities[i] * (column i-th row) @ (row i-th row)
get_cm_mu(sorted_individuals, parent_size, p) ==
    [a \in 1..Len(sorted_individuals[1]) |->
        [b \in 1..Len(sorted_individuals[1]) |->
            FSum([i \in 1..parent_size |->
                    FMul(Priority(p, i),
                         << sorted_individuals[i][a] * sorted_individuals[i][b], 1 >>)])]]

-----------------------------------------------------------------------------
(* learn and learn_LTF *)

\* the vectors of length n reproduce can return
Individuals(n) ==
    { v \in [1..n -> Weights \cup Epsilons] :
        /\ v[n] \in Epsilons
        /\ \A j \in 1..(n - 1) : v[j] \in Weights }

Challenges(c) == [1..c.challenge_num -> [1..c.inst_n -> {-1, 1}]]

\* a learn_LTF that starts every search from the distribution of __init__
LearnCallLTF_Reset ==
    /\ pc = "learn"
    /\ num_of_LTFs < cfg.k
    /\ pc' = "gen"
    /\ x' = 0
    /\ new_LTF' = << >>
    /\ searches' = searches + 1
    /\ dist' = InitialDist
    /\ UNCHANGED << cfg, sim, parent, reads, err, num_of_LTFs, different_LTFs, individuals,
                    reliabilities, correlations, sampled, oracle_used, dedup,
                    responses, correlated, cm, mf >>

\* while self.num_of_LTFs < self.instance.k: new_LTF = self.learn_LTF()
\* learn_LTF lines 73-75 assign its locals and leave self alone
LearnCallLTF ==
    /\ pc = "learn"
    /\ num_of_LTFs < cfg.k
    /\ pc' = "gen"
    /\ x' = 0
    /\ new_LTF' = << >>
    /\ searches' = searches + 1
    /\ UNCHANGED << cfg, sim, parent, reads, err, num_of_LTFs, different_LTFs, individuals,
                    reliabilities, correlations, dist, sampled, oracle_used, dedup,
                    responses, correlated, cm, mf >>

\* learn_LTF lines 77-79: x = x + 1; self.individuals = self.reproduce(...)
Reproduce ==
    /\ pc = "gen"
    /\ x < MaxGen
    /\ x' = x + 1
    /\ individuals' \in [1..cfg.pop_size -> Individuals(N(cfg))]
    /\ sampled' = TRUE
    \* locals that are reassigned before their next read
    /\ reliabilities' = NoFitness
    /\ correlations' = NoFitness
    /\ parent' = NoParent
    /\ pc' = "sampled"
    /\ UNCHANGED << cfg, sim, reads, err, num_of_LTFs, different_LTFs, new_LTF, dist,
                    oracle_used, searches, dedup, responses, correlated, cm, mf >>

\* the loop of learn_LTF with a cap on its generations
terminate_Capped(corrs, prec, gen) == Winners(corrs, prec) # {} \/ gen >= 2

\* terminate after the for loop of lines 86-89: True iff some fitness exceeds
\* precision; the generation counter x is printed and not consulted
terminate(corrs, prec, gen) == Winners(corrs, prec) # {}

\* learn_LTF lines 81-92: challenges, measure_rels, fitness, the for loop that
\* picks new_LTF, and the break (np.empty leaves new_LTF as it is when no
\* index is picked)
Evaluate ==
    /\ pc = "sampled"
    /\ \E challenges \in Challenges(cfg) :
       \E measured_rels \in MeasuredRels(cfg.challenge_num, cfg.repeat) :
          LET win == Winners(correlations', cfg.precision)
          IN  /\ reliabilities' = fitness_reliabilities(challenges, individuals, N(cfg))
              /\ correlations' = get_correlations(reliabilities', measured_rels)
              /\ new_LTF' = IF win # {} THEN individuals[Max(win)] ELSE new_LTF
              /\ pc' = IF terminate(correlations', cfg.precision, x)
                       THEN "dedup" ELSE "update"
    /\ oracle_used' = TRUE
    /\ UNCHANGED << cfg, sim, parent, reads, err, num_of_LTFs, different_LTFs, individuals, x, dist,
                    sampled, searches, dedup, responses, correlated, cm, mf >>

\* a < b for two fitness values that are numbers: sgn * sqrt(sq)
FitnessLess(a, b) ==
    \/ a.sgn < b.sgn
    \/ a.sgn = 1 /\ b.sgn = 1 /\ a.sq[1] * b.sq[2] < b.sq[1] * a.sq[2]
    \/ a.sgn = -1 /\ b.sgn = -1 /\ a.sq[1] * b.sq[2] > b.sq[1] * a.sq[2]

\* np.argsort(correlations): the indices in ascending order of the values,
\* nan sorted to the end, equal values in any order
argsort(corrs) ==
    { o \in PermutationsOf(Len(corrs)) :
        \A i, j \in 1..Len(corrs) :
            i < j => /\ ~(corrs[o[i]].nan /\ ~corrs[o[j]].nan)
                     /\ ~(/\ ~corrs[o[i]].nan
                          /\ ~corrs[o[j]].nan
                          /\ FitnessLess(corrs[o[j]], corrs[o[i]])) }

\* sort_individuals: individuals[sorted_indices[::-1]]
sort_individuals(inds, sorted_indices) ==
    [i \in 1..Len(inds) |-> inds[sorted_indices[Len(inds) + 1 - i]]]

\* lines 97-106 with every statement reading the state before the update
learn_LTF_update_Snapshot(self) ==
    [self  |-> [mean       |-> self.mean + 1,
                path_cm    |-> self.path_cm + 1,
                path_ss    |-> self.path_ss + 1,
                cov_matrix |-> self.cov_matrix + 1,
                step_size  |-> self.step_size + 1],
     reads |-> [update_mean       |-> self.step_size,
                cumulation_for_cm |-> self.path_ss,
                cumulation_for_ss |-> self.cov_matrix,
                update_cm         |-> self.path_cm,
                update_ss         |-> self.path_ss]]

\* learn_LTF lines 97-106: five assignments to self, one after the other, each
\* reading self as the statements before it have left it.  A field of self
\* holds the number of updates applied to it; reads records, per statement,
\* the version of the field of self it is handed besides the one it updates:
\*   97   self.mean       = update_mean(self.mean, self.step_size, parent)
\*   99   self.path_cm    = cumulation_for_cm(self.path_cm, .., self.path_ss, ..)
\*   102  self.path_ss    = cumulation_for_ss(self.path_ss, .., self.cov_matrix, ..)
\*   104  self.cov_matrix = update_cm(self.cov_matrix, .., self.path_cm, cm_mu)
\*   106  self.step_size  = update_ss(self.step_size, .., self.path_ss)
learn_LTF_update(self) ==
    LET s97  == [self EXCEPT !.mean = @ + 1]
        s99  == [s97  EXCEPT !.path_cm = @ + 1]
        s102 == [s99  EXCEPT !.path_ss = @ + 1]
        s104 == [s102 EXCEPT !.cov_matrix = @ + 1]
        s106 == [s104 EXCEPT !.step_size = @ + 1]
    IN  [self  |-> s106,
         reads |-> [update_mean       |-> self.step_size,
                    cumulation_for_cm |-> s97.path_ss,
                    cumulation_for_ss |-> s99.cov_matrix,
                    update_cm         |-> s102.path_cm,
                    update_ss         |-> s104.path_ss]]

\* learn_LTF lines 93-107 (with the ranking of line 90, first read here):
\* get_parent reads sorted_individuals[0..parent_size-1] and raises IndexError
\* past the population; otherwise the five updates.  What the update does to
\* the numbers, the failure of line 102 included, is the subject of SpecCM.
Update ==
    /\ pc = "update"
    /\ IF cfg.parent_size > cfg.pop_size
       THEN /\ pc' = "raised"
            /\ err' = "IndexError_249"
            /\ UNCHANGED << dist, reads, parent >>
       ELSE /\ pc' = "gen"
            /\ err' = err
            /\ \E sorted_indices \in argsort(correlations) :
                  parent' = get_parent(sort_individuals(individuals, sorted_indices),
                                       cfg.parent_size, cfg.priorities)
            /\ dist' = learn_LTF_update(dist).self
            /\ reads' = learn_LTF_update(dist).reads
    \* locals that are reassigned before their next read
    /\ reliabilities' = NoFitness
    /\ correlations' = NoFitness
    /\ UNCHANGED << cfg, sim, num_of_LTFs, different_LTFs, individuals,
                    new_LTF, x, sampled, oracle_used, searches, dedup,
                    responses, correlated, cm, mf >>

\* learn without line 52
count_LTF_Stuck(num) == num

\* self.num_of_LTFs += 1
count_LTF(num) == num + 1

\* learn lines 50-52: if self.is_different_LTF(new_LTF): store it and count it
Dedup ==
    /\ pc = "dedup"
    /\ LET out == is_different_LTF(new_LTF, num_of_LTFs)
       IN  IF out = "compare"
           THEN \E challenges \in Challenges(cfg) :
                   LET table == ResponseTable(new_LTF[1],
                                    SubSeq(different_LTFs, 1, num_of_LTFs), challenges)
                   IN  dedup' = IF is_correlated(table) THEN "False" ELSE "True"
           ELSE dedup' = out
    /\ IF dedup' = "True"
       THEN /\ different_LTFs' = [different_LTFs EXCEPT ![num_of_LTFs + 1] = new_LTF]
            /\ num_of_LTFs' = count_LTF(num_of_LTFs)
            /\ pc' = "learn"
            /\ err' = err
       ELSE IF dedup' = "False"
       THEN /\ UNCHANGED << different_LTFs, num_of_LTFs, err >>
            /\ pc' = "learn"
       ELSE /\ UNCHANGED << different_LTFs, num_of_LTFs >>
            /\ pc' = "raised"
            /\ err' = dedup'
    \* learn_LTF has returned, its locals are gone
    /\ reliabilities' = NoFitness
    /\ correlations' = NoFitness
    /\ UNCHANGED << cfg, sim, parent, reads, individuals, new_LTF, x, dist, sampled,
                    oracle_used, searches, responses, correlated, cm, mf >>

Negate(v) == [j \in 1..Len(v) |-> -v[j]]

\* challenge_num of set_pole_of_LTFs
PoleChallengeNum == 10

\* set_pole_of_LTFs with the threshold included
set_pole_of_LTFs_Closed(chains, resp) ==
    IF AbsDiffSum(resp[1], resp[2]) >= PoleChallengeNum
    THEN [chains EXCEPT ![1] = Negate(chains[1])]
    ELSE chains

\* set_pole_of_LTFs: responses[0] holds the instance's answers and
\* responses[1] those of the XOR of the chains on the batch of challenge_num
\* challenges; difference = np.sum(np.abs(responses[0, :] - responses[1, :]))
\* and the first chain is negated when difference > challenge_num
set_pole_of_LTFs(chains, resp) ==
    IF AbsDiffSum(resp[1], resp[2]) > PoleChallengeNum
    THEN [chains EXCEPT ![1] = Negate(chains[1])]
    ELSE chains

\* a response table of set_pole_of_LTFs in which the two rows differ on d
\* challenges
PoleTable(d) ==
    << [j \in 1..PoleChallengeNum |-> IF j <= d THEN -1 ELSE 1],
       [j \in 1..PoleChallengeNum |-> 1] >>

\* learn lines 53-54, after the loop
LearnReturn ==
    /\ pc = "learn"
    /\ num_of_LTFs >= cfg.k
    /\ \E d \in 0..PoleChallengeNum :
          different_LTFs' = set_pole_of_LTFs(different_LTFs, PoleTable(d))
    /\ oracle_used' = TRUE
    /\ pc' = "done"
    /\ UNCHANGED << cfg, sim, parent, reads, err, num_of_LTFs, individuals, reliabilities, correlations,
                    new_LTF, x, dist, sampled, searches, dedup, responses, correlated, cm, mf >>

Next ==
    \/ Construct
    \/ LearnCallLTF
    \/ Reproduce
    \/ Evaluate
    \/ Update
    \/ Dedup
    \/ LearnReturn

Spec == Init /\ [][Next]_vars

-----------------------------------------------------------------------------
(* SpecDedup: is_correlated on bounded response tables *)

\* the main program's variables while a helper is exercised on its own
NoProgram ==
    /\ cfg = [k |-> 0]
    /\ pc = "helper"
    /\ err = "none"
    /\ num_of_LTFs = 0
    /\ different_LTFs = << >>
    /\ individuals = << >>
    /\ reliabilities = NoFitness
    /\ correlations = NoFitness
    /\ new_LTF = << >>
    /\ x = 0
    /\ dist = InitialDist
    /\ sampled = FALSE
    /\ oracle_used = FALSE
    /\ searches = 0
    /\ parent = NoParent
    /\ reads = NoReads
    /\ dedup = "none"

BatchSizes == 0..4

\* row 0 for the candidate and up to MaxK rows for accepted chains, entries
\* in {-1, 1}
ResponseTables ==
    UNION { [1..r -> [1..c -> {-1, 1}]] : r \in 1..(MaxK + 1), c \in BatchSizes }

InitDedup ==
    /\ NoProgram
    /\ responses \in ResponseTables
    /\ correlated = "none"
    /\ cm = [gen |-> 0]
    /\ mf = NoFactory
    /\ sim = NoSimulation

ApplyIsCorrelated ==
    /\ correlated = "none"
    /\ correlated' = IF is_correlated(responses) THEN "True" ELSE "False"
    /\ UNCHANGED << cfg, sim, parent, reads, pc, err, num_of_LTFs, different_LTFs, individuals,
                    reliabilities, correlations, new_LTF, x, dist, sampled,
                    oracle_used, searches, dedup, responses, cm, mf >>

NextDedup == ApplyIsCorrelated

SpecDedup == InitDedup /\ [][NextDedup]_vars

-----------------------------------------------------------------------------
(* SpecPole: set_pole_of_LTFs on bounded chain sets and response tables *)

\* the rows of different_LTFs when learn leaves its loop: instance.k chains
PoleChains ==
    UNION { [1..k -> Individuals(n)] : k \in 1..MaxK, n \in {2, 3} }

\* responses[0, :] is any answer of the instance, responses[1, :] one of two
\* answers of the model
PoleTables ==
    { << r0, r1 >> : r0 \in [1..PoleChallengeNum -> {-1, 1}],
                     r1 \in { [j \in 1..PoleChallengeNum |-> 1],
                              [j \in 1..PoleChallengeNum |-> IF j % 2 = 0 THEN 1 ELSE -1] } }

InitPole ==
    /\ cfg = [k |-> 0]
    /\ pc = "pole"
    /\ err = "none"
    /\ num_of_LTFs = 0
    /\ different_LTFs \in PoleChains
    /\ individuals = << >>
    /\ reliabilities = NoFitness
    /\ correlations = NoFitness
    /\ new_LTF = << >>
    /\ x = 0
    /\ dist = InitialDist
    /\ sampled = FALSE
    /\ oracle_used = FALSE
    /\ searches = 0
    /\ parent = NoParent
    /\ reads = NoReads
    /\ dedup = "none"
    /\ responses \in PoleTables
    /\ correlated = "none"
    /\ cm = [gen |-> 0]
    /\ mf = NoFactory
    /\ sim = NoSimulation

\* self.different_LTFs = self.set_pole_of_LTFs(self.instance, self.different_LTFs)
ApplySetPole ==
    /\ pc = "pole"
    /\ pc' = "poled"
    /\ different_LTFs' = set_pole_of_LTFs(different_LTFs, responses)
    /\ UNCHANGED << cfg, sim, parent, reads, err, num_of_LTFs, individuals, reliabilities, correlations,
                    new_LTF, x, dist, sampled, oracle_used, searches, dedup,
                    responses, correlated, cm, mf >>

NextPole == ApplySetPole

SpecPole == InitPole /\ [][NextPole]_vars

-----------------------------------------------------------------------------
(* SpecCM: the covariance slice of a chain search, in exact fractions *)

\* 1 - c_c with c_c = 4 / n
OneMinusCc(n) == Frac(n - 4, n)

\* the square of the factor sqrt(1 - (1-c_c)**2) * sqrt(mu_w) of
\* cumulation_for_cm; path_cm is kept in units of that factor, which is
\* irrational in general
DirectionFactorSq(n, p) ==
    FMul(FAdd(<< 1, 1 >>, FMul(<< -1, 1 >>, FMul(OneMinusCc(n), OneMinusCc(n)))),
         Frac(mu_w(p).num, mu_w(p).den))

\* cumulation_for_cm: path_cm * (1-c_c), plus the direction term (here
\* parent, in units of the factor) when norm(path_ss) < 1.5 * sqrt(n)
cumulation_for_cm(path_cm, n, below, par) ==
    [j \in 1..n |->
        IF below THEN FAdd(FMul(OneMinusCc(n), path_cm[j]), par[j])
        ELSE FMul(OneMinusCc(n), path_cm[j])]

\* 1 - c_1 - c_mu
Decay(n, p) ==
    FAdd(<< 1, 1 >>,
         FMul(<< -1, 1 >>, FAdd(Frac(c_1(n).num, c_1(n).den),
                                Frac(c_mu(p, n).num, c_mu(p, n).den))))

\* update_cm: (1 - c_1 - c_mu) * cov_matrix + c_1 * path_cm * path_cm.T
\* + c_mu * cm_mu.  path_cm is one-dimensional, so path_cm.T is path_cm and
\* path_cm * path_cm.T is the vector of squares, which numpy adds to every
\* row of the matrix: entry (i, j) receives c_1 * path_cm[j]**2
update_cm(cov_matrix, n, p, path_cm, cm_mu) ==
    [i \in 1..n |-> [j \in 1..n |->
        FAdd(FAdd(FMul(Decay(n, p), cov_matrix[i][j]),
                  FMul(Frac(c_1(n).num, c_1(n).den),
                       FMul(DirectionFactorSq(n, p), FMul(path_cm[j], path_cm[j])))),
             FMul(Frac(c_mu(p, n).num, c_mu(p, n).den), cm_mu[i][j]))]]

\* the square of the factor sqrt(1 - (1-c_sigma)**2) of cumulation_for_ss,
\* c_sigma = 4 / n = c_c
SmoothingFactorSq(n) ==
    FAdd(<< 1, 1 >>, FMul(<< -1, 1 >>, FMul(OneMinusCc(n), OneMinusCc(n))))

\* np.linalg.eigh reads the lower triangle of its argument (UPLO = 'L')
Lower(matrix) ==
    [i \in 1..Len(matrix) |-> [j \in 1..Len(matrix) |->
        IF j <= i THEN matrix[i][j] ELSE matrix[j][i]]]

Lcm(a, b) == (a \div Gcd(a, b)) * b

RECURSIVE CommonDen(_, _)
\* least common denominator of the entries t..n*n of a matrix, row by row
CommonDen(matrix, t) ==
    LET n == Len(matrix)
    IN  IF t > n * n THEN 1
        ELSE Lcm(matrix[((t - 1) \div n) + 1][((t - 1) % n) + 1][2],
                 CommonDen(matrix, t + 1))

\* the matrix times its common denominator: integer entries, same signs of
\* the eigenvalues
ScaleToInt(matrix) ==
    LET d == CommonDen(matrix, 1)
    IN  [i \in 1..Len(matrix) |-> [j \in 1..Len(matrix) |->
            matrix[i][j][1] * (d \div matrix[i][j][2])]]

\* natural numbers of any size, as their digits in base 10000, lowest first
\* (a determinant of the scaled matrix does not fit TLC's 32-bit integers)
Base == 10000

RECURSIVE BigOf(_)
BigOf(a) == IF a = 0 THEN << >> ELSE << a % Base >> \o BigOf(a \div Base)

RECURSIVE BigAdd(_, _, _)
BigAdd(p, q, carry) ==
    IF p = << >> /\ q = << >>
    THEN (IF carry = 0 THEN << >> ELSE << carry >>)
    ELSE LET t == (IF p = << >> THEN 0 ELSE Head(p))
                  + (IF q = << >> THEN 0 ELSE Head(q)) + carry
         IN  << t % Base >> \o BigAdd(IF p = << >> THEN p ELSE Tail(p),
                                       IF q = << >> THEN q ELSE Tail(q),
                                       t \div Base)

RECURSIVE BigTimesDigit(_, _, _)
BigTimesDigit(p, d, carry) ==
    IF p = << >> THEN BigOf(carry)
    ELSE << (Head(p) * d + carry) % Base >>
         \o BigTimesDigit(Tail(p), d, (Head(p) * d + carry) \div Base)

RECURSIVE BigMul(_, _)
BigMul(p, q) ==
    IF p = << >> \/ q = << >> THEN << >>
    ELSE BigAdd(BigTimesDigit(p, Head(q), 0), << 0 >> \o BigMul(p, Tail(q)), 0)

RECURSIVE BigStrip(_)
\* without leading zero digits
BigStrip(p) ==
    IF p = << >> THEN p
    ELSE IF p[Len(p)] = 0 THEN BigStrip(SubSeq(p, 1, Len(p) - 1))
    ELSE p

RECURSIVE BigCmpStripped(_, _)
\* -1, 0, 1 as p < q, p = q, p > q
BigCmpStripped(p, q) ==
    IF Len(p) # Len(q) THEN (IF Len(p) < Len(q) THEN -1 ELSE 1)
    ELSE IF p = << >> THEN 0
    ELSE IF p[Len(p)] # q[Len(q)] THEN (IF p[Len(p)] < q[Len(q)] THEN -1 ELSE 1)
    ELSE BigCmpStripped(SubSeq(p, 1, Len(p) - 1), SubSeq(q, 1, Len(q) - 1))

BigCmp(p, q) == BigCmpStripped(BigStrip(p), BigStrip(q))

\* the sign of the permutation times the signs of the entries it selects
TermSign(A, f) ==
    LET inversions == Cardinality({ ab \in (1..Len(A)) \X (1..Len(A)) :
                                      ab[1] < ab[2] /\ f[ab[1]] > f[ab[2]] })
        negatives  == Cardinality({ r \in 1..Len(A) : A[r][f[r]] < 0 })
    IN  IF \E r \in 1..Len(A) : A[r][f[r]] = 0 THEN 0
        ELSE IF (inversions + negatives) % 2 = 0 THEN 1 ELSE -1

RECURSIVE TermSize(_, _, _)
\* |A[r][f[r]]| * ... * |A[n][f[n]]|
TermSize(A, f, r) ==
    IF r > Len(A) THEN << 1 >>
    ELSE BigMul(BigOf(Abs(A[r][f[r]])), TermSize(A, f, r + 1))

RECURSIVE BigSum(_, _, _)
\* the sum of the sizes of the terms of sign sg among the permutations P
BigSum(A, P, sg) ==
    IF P = {} THEN << >>
    ELSE LET f == CHOOSE g \in P : TRUE
         IN  IF TermSign(A, f) = sg
             THEN BigAdd(TermSize(A, f, 1), BigSum(A, P \ {f}, sg), 0)
             ELSE BigSum(A, P \ {f}, sg)

\* the sign of the determinant of an integer matrix, by Leibniz's formula
DetSign(A) ==
    BigCmp(BigSum(A, PermutationsOf(Len(A)), 1), BigSum(A, PermutationsOf(Len(A)), -1))

SortedSeq(S) ==
    CHOOSE s \in [1..Cardinality(S) -> S] :
        \A a, b \in 1..Cardinality(S) : a < b => s[a] < s[b]

\* the rows and columns S of A
Principal(A, S) ==
    LET idx == SortedSeq(S)
    IN  [r \in 1..Len(idx) |-> [c \in 1..Len(idx) |-> A[idx[r]][idx[c]]]]

\* the sign of the smallest eigenvalue np.linalg.eigh returns for the matrix:
\* all positive iff every leading principal minor is positive, none negative
\* iff no principal minor is negative
eigen_values(matrix) ==
    LET A == ScaleToInt(Lower(matrix))
    IN  IF \A m \in 1..Len(A) : DetSign(Principal(A, 1..m)) > 0 THEN "positive"
        ELSE IF \E S \in (SUBSET (1..Len(A))) \ {{}} : DetSign(Principal(A, S)) < 0
        THEN "negative"
        ELSE "zero"

\* modify_eigen_decomposition: np.sqrt of a negative eigenvalue is nan (a
\* RuntimeWarning, no exception) and np.linalg.inv of a matrix that holds nan
\* returns nan; np.linalg.inv of a diagonal with an exact 0 raises LinAlgError
modify_eigen_decomposition(matrix) ==
    IF eigen_values(matrix) = "positive" THEN "finite"
    ELSE IF eigen_values(matrix) = "negative" THEN "nan"
    ELSE "LinAlgError_266"

\* cumulation_for_ss, by the kind of vector it returns: (1-c_sigma) * path_ss
\* plus the factor times sqrt(mu_w) * cm_eigen_dec @ parent.  "zero" is the
\* zero vector, "finite" any real vector, "nan" a vector of nan.
cumulation_for_ss(path_ss, n, cm_eigen_dec, par) ==
    IF path_ss = "nan" \/ cm_eigen_dec = "nan" \/ par = "nan" THEN "nan"
    ELSE IF SmoothingFactorSq(n)[1] < 0 THEN "nan"
    ELSE IF SmoothingFactorSq(n)[1] = 0 THEN path_ss
    ELSE "finite"

\* update_ss, by the kind of number it returns: step_size times the
\* exponential of a real number, nan once path_ss or step_size is nan
update_ss(step_size, path_ss) ==
    IF step_size = "nan" \/ path_ss = "nan" THEN "nan" ELSE "positive"

\* np.linalg.norm(path_ss) < 1.5 * np.sqrt(n) in cumulation_for_cm: True for
\* the zero vector, False for nan, either for another vector
StallGuard(path_ss) ==
    IF path_ss = "zero" THEN {TRUE}
    ELSE IF path_ss = "nan" THEN {FALSE}
    ELSE BOOLEAN

\* a matrix of nan
NaNMatrix(n) == [i \in 1..n |-> [j \in 1..n |-> << 0, 0 >>]]

MaxGenCM == 2

\* what reproduce draws in SpecCM: the normal distribution gives every real
\* vector positive density
WeightsCM == {-1, 2}

IndividualsCM(n) ==
    { v \in [1..n -> WeightsCM \cup Epsilons] :
        /\ v[n] \in Epsilons
        /\ \A j \in 1..(n - 1) : v[j] \in WeightsCM }

\* the engines __init__ accepts, reduced to what the update reads
EnginesCM ==
    { [n |-> N(c), priorities |-> c.priorities, parent_size |-> c.parent_size] :
        c \in { d \in Configs : ConstructError(d) = "none" } }

\* mean counts its updates (upd) and is flagged once it holds nan; path_ss
\* and step_size are kept by kind; cov_matrix and path_cm are exact; cm_mu is
\* learn_LTF's local of the last generation
InitCM ==
    /\ NoProgram
    /\ responses = << >>
    /\ correlated = "none"
    /\ mf = NoFactory
    /\ sim = NoSimulation
    /\ \E e \in EnginesCM :
          cm = [n |-> e.n, priorities |-> e.priorities, parent_size |-> e.parent_size,
                mean |-> [upd |-> 0, nan |-> FALSE],
                cov_matrix |-> Identity(e.n), path_cm |-> FZeros(e.n),
                path_ss |-> "zero", step_size |-> "positive",
                individuals |-> "finite", cm_mu |-> NaNMatrix(e.n),
                gen |-> 0, err |-> "none"]

\* one generation of learn_LTF that does not converge, lines 77-107, from a
\* distribution without nan: the parent_size fittest individuals are any
\* vectors reproduce can draw.  The statements run in the order of the code:
\* 97 mean, 99 path_cm (reads the old path_ss), 102 path_ss (reads the old
\* cov_matrix, may raise), 104 cov_matrix (reads the new path_cm), 106
\* step_size (reads the new path_ss).
GenerationCM ==
    /\ cm.err = "none"
    /\ cm.gen < MaxGenCM
    /\ cm.step_size # "nan"
    /\ \E sorted_individuals \in [1..cm.parent_size -> IndividualsCM(cm.n)] :
       \E below \in StallGuard(cm.path_ss) :
       \E par \in {get_parent(sorted_individuals, cm.parent_size, cm.priorities)} :
       \E cm_mu \in {get_cm_mu(sorted_individuals, cm.parent_size, cm.priorities)} :
       \E path_cm \in {cumulation_for_cm(cm.path_cm, cm.n, below, par)} :
       \E cm_eigen_dec \in {modify_eigen_decomposition(cm.cov_matrix)} :
       \E path_ss \in {cumulation_for_ss(cm.path_ss, cm.n, cm_eigen_dec, "finite")} :
          IF cm_eigen_dec = "LinAlgError_266"
          THEN cm' = [cm EXCEPT !.individuals = "finite",
                                !.cm_mu = cm_mu,
                                !.mean = [upd |-> @.upd + 1, nan |-> FALSE],
                                !.path_cm = path_cm,
                                !.gen = @ + 1,
                                !.err = "LinAlgError_266"]
          ELSE cm' = [cm EXCEPT !.individuals = "finite",
                                !.cm_mu = cm_mu,
                                !.mean = [upd |-> @.upd + 1, nan |-> FALSE],
                                !.path_cm = path_cm,
                                !.path_ss = path_ss,
                                !.cov_matrix = update_cm(cm.cov_matrix, cm.n,
                                                  cm.priorities, path_cm, cm_mu),
                                !.step_size = update_ss(cm.step_size, path_ss),
                                !.gen = @ + 1]
    /\ UNCHANGED << cfg, sim, parent, reads, pc, err, num_of_LTFs, different_LTFs, individuals,
                    reliabilities, correlations, new_LTF, x, dist, sampled,
                    oracle_used, searches, dedup, responses, correlated, mf >>

\* the generation after step_size became nan: reproduce returns
\* mean + nan * mutations, a population of nan; every predicted reliability
\* is 0 (a comparison with nan is False), every fitness 0, no individual
\* exceeds a precision >= 0, and the update runs on a parent of nan
GenerationNaN ==
    /\ cm.err = "none"
    /\ cm.step_size = "nan"
    /\ cm.individuals = "finite"
    /\ \E cm_eigen_dec \in {modify_eigen_decomposition(cm.cov_matrix)} :
          IF cm_eigen_dec = "LinAlgError_266"
          THEN cm' = [cm EXCEPT !.individuals = "nan",
                                !.cm_mu = NaNMatrix(cm.n),
                                !.mean = [upd |-> @.upd + 1, nan |-> TRUE],
                                !.path_cm = cumulation_for_cm(cm.path_cm, cm.n, FALSE,
                                                              FZeros(cm.n)),
                                !.gen = @ + 1,
                                !.err = "LinAlgError_266"]
          ELSE cm' = [cm EXCEPT !.individuals = "nan",
                                !.cm_mu = NaNMatrix(cm.n),
                                !.mean = [upd |-> @.upd + 1, nan |-> TRUE],
                                !.path_cm = cumulation_for_cm(cm.path_cm, cm.n, FALSE,
                                                              FZeros(cm.n)),
                                !.path_ss = cumulation_for_ss(cm.path_ss, cm.n,
                                                              cm_eigen_dec, "nan"),
                                !.cov_matrix = NaNMatrix(cm.n),
                                !.step_size = update_ss(cm.step_size, "nan"),
                                !.gen = @ + 1]
    /\ UNCHANGED << cfg, sim, parent, reads, pc, err, num_of_LTFs, different_LTFs, individuals,
                    reliabilities, correlations, new_LTF, x, dist, sampled,
                    oracle_used, searches, dedup, responses, correlated, mf >>

NextCM ==
    \/ GenerationCM
    \/ GenerationNaN

SpecCM == InitCM /\ [][NextCM]_vars

-----------------------------------------------------------------------------
(* SpecPath: lines 99 and 102 of learn_LTF with a path_ss of known length    *)

MaxGenPath == 2
MaxPathEntry == 3

\* the lengths of chains: n = 4 is the shortest for which a vector of whole
\* numbers has the norm 1.5 * sqrt(n)
PathNs == 2..4

\* a guard that also adds the direction at norm(path_ss) = 1.5 * sqrt(n)
StallBelow_Closed(path_ss, n) ==
    4 * SumSeq([j \in 1..n |-> path_ss[j] * path_ss[j]]) <= 9 * n

\* np.linalg.norm(path_ss) < 1.5 * np.sqrt(n), both sides squared and
\* multiplied by 4
StallBelow(path_ss, n) ==
    4 * SumSeq([j \in 1..n |-> path_ss[j] * path_ss[j]]) < 9 * n

\* the values of path_ss followed: line 102 can return any real vector (the
\* individuals are real and C^(-1/2) is invertible) unless c_sigma = 2, where
\* both of its terms are 0; vectors of whole numbers with at most two entries
\* that are not 0, one per pair of absolute values
PathSSValues(n) ==
    IF n = 2 THEN { Zeros(n) }
    ELSE { v \in [1..n -> 0..MaxPathEntry] :
             /\ v[1] >= v[2]
             /\ \A j \in 3..n : v[j] = 0 }

IndividualsPath(n) ==
    { v \in [1..n -> Weights \cup Epsilons] :
        /\ v[n] \in Epsilons
        /\ \A j \in 1..(n - 1) : v[j] \in Weights }

\* priorities [1.0] and [0.5, 0.5], in halves
PrioritiesPath == { << 2 >>, << 1, 1 >> }

\* the engines __init__ accepts for chains of length 2..4
EnginesPath ==
    { [n |-> N(c), priorities |-> c.priorities, parent_size |-> c.parent_size] :
        c \in { d \in [ inst_n        : { n - 1 : n \in PathNs },
                        k             : {1},
                        pop_size      : {Len(q) : q \in PrioritiesPath},
                        parent_size   : {Len(q) : q \in PrioritiesPath},
                        priorities    : PrioritiesPath,
                        challenge_num : ChallengeNums,
                        repeat        : Repeats,
                        precision     : Precisions ] :
                    ConstructError(d) = "none" /\ d.parent_size <= d.pop_size } }

\* path_cm in units of its direction factor, path_ss exact, par the parent
\* of the last generation
InitPath ==
    /\ NoProgram
    /\ responses = << >>
    /\ correlated = "none"
    /\ mf = NoFactory
    /\ sim = NoSimulation
    /\ \E e \in EnginesPath :
          cm = [n |-> e.n, priorities |-> e.priorities, parent_size |-> e.parent_size,
                path_cm |-> FZeros(e.n), path_ss |-> Zeros(e.n), par |-> FZeros(e.n),
                gen |-> 0]

\* lines 93, 99 and 102 of a generation that does not converge: path_cm is
\* reassigned from the path_ss the generation started with, then path_ss is
\* reassigned
GenerationPath ==
    /\ cm.gen < MaxGenPath
    /\ \E par \in { get_parent(sorted_individuals, cm.parent_size, cm.priorities) :
                      sorted_individuals \in [1..cm.parent_size -> IndividualsPath(cm.n)] } :
       \E path_ss \in PathSSValues(cm.n) :
          cm' = [cm EXCEPT !.par = par,
                           !.path_cm = cumulation_for_cm(cm.path_cm, cm.n,
                                           StallBelow(cm.path_ss, cm.n), par),
                           !.path_ss = path_ss,
                           !.gen = @ + 1]
    /\ UNCHANGED << cfg, sim, parent, reads, pc, err, num_of_LTFs, different_LTFs, individuals,
                    reliabilities, correlations, new_LTF, x, dist, sampled,
                    oracle_used, searches, dedup, responses, correlated, mf >>

NextPath == GenerationPath

SpecPath == InitPath /\ [][NextPath]_vars

-----------------------------------------------------------------------------
(* The ranking of one generation: sort_individuals and get_parent on         *)
(* populations whose weights differ in size                                  *)

\* weights of different size: the delay of (3, 1) is never below epsilon = 1,
\* the delay of (1, 1) is on half of the challenges
WeightsRank == {-1, 1, 3}

IndividualsRank(n) ==
    { v \in [1..n -> WeightsRank \cup Epsilons] :
        /\ v[n] \in Epsilons
        /\ \A j \in 1..(n - 1) : v[j] \in WeightsRank }

\* engines for one chain of two challenge bits with a population of two
RankConfigs ==
    { c \in Configs : /\ ConstructError(c) = "none"
                      /\ c.inst_n = 2
                      /\ c.k = 1
                      /\ c.pop_size = 2 }

\* the first generation of the first search, after line 79 has drawn the
\* population
InitRank ==
    /\ cfg \in RankConfigs
    /\ pc = "sampled"
    /\ err = "none"
    /\ num_of_LTFs = 0
    /\ different_LTFs = [i \in 1..cfg.k |-> Zeros(N(cfg))]
    /\ individuals \in [1..cfg.pop_size -> IndividualsRank(N(cfg))]
    /\ reliabilities = NoFitness
    /\ correlations = NoFitness
    /\ new_LTF = << >>
    /\ x = 1
    /\ dist = InitialDist
    /\ sampled = TRUE
    /\ oracle_used = FALSE
    /\ searches = 1
    /\ parent = NoParent
    /\ reads = NoReads
    /\ dedup = "none"
    /\ Idle

NextRank ==
    \/ Evaluate
    \/ Update

SpecRank == InitRank /\ [][NextRank]_vars

-----------------------------------------------------------------------------
(* SpecLast: a generation in which the fitness values above precision differ *)

\* weights of a chain of three challenge bits: the delay of (1, 1, 1) is above
\* epsilon = 1 on a quarter of the challenges, that of (3, 1, 1) on three
\* quarters
WeightsLast == {1, 3}

IndividualsLast(n) ==
    { v \in [1..n -> WeightsLast \cup Epsilons] :
        /\ v[n] \in Epsilons
        /\ \A j \in 1..(n - 1) : v[j] \in WeightsLast }

\* three challenges per batch, on which the correlation of two 0/1 vectors
\* is -1, -0.5, 0.5 or 1, and precision 0.25
LastConfigs ==
    { c \in [ inst_n        : {3},
              k             : {1},
              pop_size      : {2},
              parent_size   : {1},
              priorities    : {<< 2 >>},
              challenge_num : {3},
              repeat        : Repeats,
              precision     : {[num |-> 1, den |-> 4]} ] :
        ConstructError(c) = "none" }

\* the first generation of the first search, after line 79 has drawn the
\* population
InitLast ==
    /\ cfg \in LastConfigs
    /\ pc = "sampled"
    /\ err = "none"
    /\ num_of_LTFs = 0
    /\ different_LTFs = [i \in 1..cfg.k |-> Zeros(N(cfg))]
    /\ individuals \in [1..cfg.pop_size -> IndividualsLast(N(cfg))]
    /\ reliabilities = NoFitness
    /\ correlations = NoFitness
    /\ new_LTF = << >>
    /\ x = 1
    /\ dist = InitialDist
    /\ sampled = TRUE
    /\ oracle_used = FALSE
    /\ searches = 1
    /\ parent = NoParent
    /\ reads = NoReads
    /\ dedup = "none"
    /\ Idle

NextLast ==
    \/ Evaluate
    \/ Update

SpecLast == InitLast /\ [][NextLast]_vars

-----------------------------------------------------------------------------
(* MonomialFactory: a sum of monomials is a dict {frozenset(indices):        *)
(* coefficient}, modelled as the sequence of its items << key, coefficient >>*)
(* in insertion order, every key once                                        *)

MaxIndex == 1
MaxTerms == 2
MaxExp == 3

Coefficients == {-1, 1, 2}

\* m1.symmetric_difference(m2)
symmetric_difference(m1, m2) == (m1 \ m2) \cup (m2 \ m1)

\* d[key] = c on a dict: a key that is present keeps its place and takes the
\* new value, a new key is appended
DictSet(d, key, c) ==
    IF \E i \in 1..Len(d) : d[i][1] = key
    THEN [i \in 1..Len(d) |-> IF d[i][1] = key THEN << key, c >> ELSE d[i]]
    ELSE Append(d, << key, c >>)

\* {key: value for ...}: the items are stored one by one, in the order the
\* comprehension produces them
RECURSIVE DictOf(_)
DictOf(items) ==
    IF items = << >> THEN << >>
    ELSE LET last == items[Len(items)]
         IN  DictSet(DictOf(SubSeq(items, 1, Len(items) - 1)), last[1], last[2])

\* multiply_sums: {m1.symmetric_difference(m2): c1*c2 for m1,c1 in s1.items()
\*                                                   for m2,c2 in s2.items()}
multiply_sums(s1, s2) ==
    DictOf([t \in 1..(Len(s1) * Len(s2)) |->
              LET a == s1[((t - 1) \div Len(s2)) + 1]
                  b == s2[((t - 1) % Len(s2)) + 1]
              IN  << symmetric_difference(a[1], b[1]), a[2] * b[2] >>])

\* monomials_exp, for k >= 1
RECURSIVE monomials_exp(_, _)
monomials_exp(mono, k) ==
    IF k = 1 THEN mono
    ELSE LET A   == monomials_exp(mono, k \div 2)
             res == multiply_sums(A, A)
         IN  IF k % 2 = 1 THEN multiply_sums(res, mono) ELSE res

\* the dicts with 1..MaxTerms items over the indices 0..MaxIndex
Monos ==
    { d \in UNION { [1..l -> (SUBSET (0..MaxIndex)) \X Coefficients] : l \in 1..MaxTerms } :
        \A i, j \in 1..Len(d) : i # j => d[i][1] # d[j][1] }

InitMono ==
    /\ NoProgram
    /\ responses = << >>
    /\ correlated = "none"
    /\ cm = [gen |-> 0]
    /\ mf \in [k : 1..MaxExp, mono : Monos, res : {<< >>}, done : {FALSE}]
    /\ sim = NoSimulation

\* a call MonomialFactory().monomials_exp(mono, k)
ApplyMonomialsExp ==
    /\ ~mf.done
    /\ mf' = [mf EXCEPT !.res = monomials_exp(mf.mono, mf.k), !.done = TRUE]
    /\ UNCHANGED << cfg, sim, parent, reads, pc, err, num_of_LTFs, different_LTFs, individuals,
                    reliabilities, correlations, new_LTF, x, dist, sampled,
                    oracle_used, searches, dedup, responses, correlated, cm >>

NextMono == ApplyMonomialsExp

SpecMono == InitMono /\ [][NextMono]_vars

-----------------------------------------------------------------------------
(* InterposeBinaryTree of variants_mlp.py, on one challenge.  A response is  *)
(* -1 or 1; the PUF of layer 0 is its response to the challenge, a PUF of a  *)
(* deeper layer is its response per interposed bit (XORArbiterPUF.eval is    *)
(* not part of the sources: any table can be the PUF's)                      *)

Bits == {-1, 1}

PufTables == [Bits -> Bits]

RECURSIVE Pow2(_)
Pow2(i) == IF i = 0 THEN 1 ELSE 2 * Pow2(i - 1)

RECURSIVE Prod(_)
Prod(s) == IF s = << >> THEN 1 ELSE Head(s) * Prod(Tail(s))

\* the lists ks followed: depth = len(ks) - 1 is 1 or 2
TreeKs == [1..2 -> {1, 2}] \cup { << 1, 1, 1 >> }

\* layer i of self.layers: 2 ** i PUFs
LayerChoices(i) == IF i = 0 THEN [1..1 -> Bits] ELSE [1..Pow2(i) -> PufTables]

\* self.layers for range(depth + 1); layer i is at place i + 1
RECURSIVE LayersChoices(_)
LayersChoices(depth) ==
    IF depth = 0 THEN { << l >> : l \in LayerChoices(0) }
    ELSE { Append(ls, l) : ls \in LayersChoices(depth - 1), l \in LayerChoices(depth) }

\* line 134-136: PUF j of the layer is evaluated on the challenge with
\* responses[int(j / 2)] interposed (PUF j is at place j + 1)
eval_layer(layer, resps) ==
    [jj \in 1..Len(layer) |-> layer[jj][resps[((jj - 1) \div 2) + 1]]]

\* the for loop of line 133 from iteration i on: for i in range(depth - 1),
\* each iteration evaluates layer i + 1 and reassigns responses (resps);
\* evaluated collects the layers that were evaluated
RECURSIVE eval_loop(_, _, _, _)
eval_loop(self, i, resps, evaluated) ==
    IF i >= self.depth - 1
    THEN [responses |-> resps, evaluated |-> evaluated]
    ELSE eval_loop(self, i + 1, eval_layer(self.layers[i + 2], resps),
                   evaluated \cup {i + 1})

\* InterposeBinaryTree.eval: layer 0, the loop, prod(responses, axis=0)
InterposeBinaryTree_eval(self) ==
    LET out == eval_loop(self, 0, << self.layers[1][1] >>, {0})
    IN  [responses |-> out.responses,
         evaluated |-> out.evaluated,
         result    |-> Prod(out.responses)]

\* the state after InterposeBinaryTree.__init__
InitTree ==
    /\ NoProgram
    /\ responses = << >>
    /\ correlated = "none"
    /\ cm = [gen |-> 0]
    /\ mf = NoFactory
    /\ \E ks \in TreeKs :
       \E layers \in LayersChoices(Len(ks) - 1) :
          sim = [class |-> "InterposeBinaryTree", ks |-> ks, depth |-> Len(ks) - 1,
                 layers |-> layers, evaluated |-> {}, result |-> 0, done |-> FALSE]

\* a call of eval on one challenge
ApplyTreeEval ==
    /\ sim.class = "InterposeBinaryTree"
    /\ ~sim.done
    /\ sim' = [sim EXCEPT !.evaluated = InterposeBinaryTree_eval(sim).evaluated,
                          !.result = InterposeBinaryTree_eval(sim).result,
                          !.done = TRUE]
    /\ UNCHANGED << cfg, parent, reads, pc, err, num_of_LTFs, different_LTFs, individuals,
                    reliabilities, correlations, new_LTF, x, dist, sampled,
                    oracle_used, searches, dedup, responses, correlated, cm, mf >>

NextTree == ApplyTreeEval

SpecTree == InitTree /\ [][NextTree]_vars

-----------------------------------------------------------------------------
(* Interpose3PUF.__init__ of variants_mlp.py                                 *)

MaxChains == 3

\* challenge lengths followed
Lengths3 == {2, 3, 64}

\* line 47: a conditional expression binds weaker than +, so the expression
\* reads  k_up if k_up > 1 else ((0 + k_middle) if k_middle > 1 else
\* ((0 + k_down) if k_down > 1 else 0))
Interpose3PUF_xors(k_up, k_middle, k_down) ==
    IF k_up > 1 THEN k_up
    ELSE IF k_middle > 1 THEN 0 + k_middle
    ELSE IF k_down > 1 THEN 0 + k_down
    ELSE 0

\* XORArbiterPUF(n=n, k=k, ...): the arguments the PUF is built with
XORArbiterPUF(n, k) == [n |-> n, k |-> k]

\* Interpose3PUF.__init__, lines 43-54, without the seeds and the noise
Interpose3PUF_init(n, k_up, k_middle, k_down) ==
    [class         |-> "Interpose3PUF",
     built         |-> TRUE,
     n             |-> n,
     k             |-> k_up,
     k_up          |-> k_up,
     k_middle      |-> k_middle,
     k_down        |-> k_down,
     chains        |-> k_up + k_middle + k_down,
     xors          |-> Interpose3PUF_xors(k_up, k_middle, k_down),
     interposings  |-> 3,
     up            |-> XORArbiterPUF(n, k_up),
     middle        |-> XORArbiterPUF(n + 1, k_up),
     down          |-> XORArbiterPUF(n + 1, k_up),
     interpose_pos |-> n \div 2]

\* the arguments of a call Interpose3PUF(n, k_up, k_middle, k_down, seed)
Init3PUF ==
    /\ NoProgram
    /\ responses = << >>
    /\ correlated = "none"
    /\ cm = [gen |-> 0]
    /\ mf = NoFactory
    /\ sim \in [class : {"Interpose3PUF"}, built : {FALSE}, n : Lengths3,
                k_up : 1..MaxChains, k_middle : 1..MaxChains, k_down : 1..MaxChains]

Construct3PUF ==
    /\ sim.class = "Interpose3PUF"
    /\ ~sim.built
    /\ sim' = Interpose3PUF_init(sim.n, sim.k_up, sim.k_middle, sim.k_down)
    /\ UNCHANGED << cfg, parent, reads, pc, err, num_of_LTFs, different_LTFs, individuals,
                    reliabilities, correlations, new_LTF, x, dist, sampled,
                    oracle_used, searches, dedup, responses, correlated, cm, mf >>

Next3PUF == Construct3PUF

Spec3PUF == Init3PUF /\ [][Next3PUF]_vars

-----------------------------------------------------------------------------
(* Claims about construction *)

ConstructionFailed == pc = "raised" /\ err \in ConfigErrors

\* C1: construction raises for every configuration with parent_size > pop_size
\* or with a non-positive pop_size or parent_size; none of them yields an
\* engine.
C1_BadSizesRejected ==
    (pc # "new" /\ (\/ cfg.parent_size > cfg.pop_size
                    \/ cfg.pop_size <= 0
                    \/ cfg.parent_size <= 0))
        => ConstructionFailed

\* C2: construction raises whenever len(priorities) # parent_size or the
\* priorities do not sum to exactly 1 (two halves), and neither of the two
\* checks fails when the length matches and the sum is exactly 1.
C2_PrioritiesChecked ==
    pc # "new" =>
        /\ (Len(cfg.priorities) # cfg.parent_size \/ SumSeq(cfg.priorities) # 2)
              => ConstructionFailed
        /\ (Len(cfg.priorities) = cfg.parent_size /\ SumSeq(cfg.priorities) = 2)
              => err \notin {"AssertionError_41", "AssertionError_42"}

\* c_1 + c_mu > 1 with c_1 = 2/n^2, c_mu = mu_w/n^2, mu_w = 1/sum(p_i^2) and
\* sum(p_i^2) = q/4: (2 + 4/q) > n^2, mu_w infinite for q = 0
LearningRatesTooLarge(c) ==
    LET q == SumSquares(c.priorities)
        n == c.inst_n + 1
    IN  q = 0 \/ 2 * q + 4 > q * n * n

\* C3: construction raises whenever c_1 + c_mu > 1, and whenever construction
\* has raised, no population has been sampled and the oracle instance has not
\* been evaluated.
C3_FailsBeforeSampling ==
    /\ (pc # "new" /\ LearningRatesTooLarge(cfg)) => ConstructionFailed
    /\ ConstructionFailed => (~sampled /\ ~oracle_used /\ searches = 0)

\* an engine whose only violated condition is c_1 + c_mu <= 1 was refused
C3_Witness == pc = "raised" /\ err = "AssertionError_43"

-----------------------------------------------------------------------------
(* Claims about learn and DeduplicationCheck *)

C5_SingleChain ==
    /\ [](cfg.k = 1 => /\ searches <= 1
                       /\ dedup \in {"none", "True"}
                       /\ (pc = "done" => searches = 1 /\ num_of_LTFs = 1))
    /\ [][ (cfg.k = 1 /\ pc = "dedup") =>
              /\ num_of_LTFs = 0
              /\ dedup' = "True"
              /\ num_of_LTFs' = 1
              /\ pc' = "learn" ]_vars

\* learn returned for a single-chain target after one ChainSearch
C5_Witness == cfg.k = 1 /\ pc = "done" /\ searches = 1 /\ dedup = "True"

\* C6: for k >= 2, a DeduplicationCheck answers accept or reject; it never
\* ends in an indexing error.
C6_DedupCompletes ==
    (cfg.k >= 2 /\ dedup # "none") => dedup \in {"True", "False"}

\* is_different_LTF drops the trailing epsilon: the weights it compares
SameWeights(a, b) == \A j \in 1..(Len(a) - 1) : a[j] = b[j]
NegatedWeights(a, b) == \A j \in 1..(Len(a) - 1) : a[j] = -b[j]

\* C7: a candidate whose weights equal those of an accepted chain, or are
\* their negation, is rejected by DeduplicationCheck.
C7_DuplicateRejected ==
    [][ (/\ pc = "dedup"
         /\ \E r \in 1..num_of_LTFs :
               \/ SameWeights(new_LTF, different_LTFs[r])
               \/ NegatedWeights(new_LTF, different_LTFs[r]))
        => dedup' = "False" ]_vars

-----------------------------------------------------------------------------
(* Claims about the fitness *)

ConstantRow(row) == \A a, b \in 1..Len(row) : row[a] = row[b]

\* C9: every fitness get_correlations returns is a number in [-1, 1], and it
\* is 0 for an individual whose predicted reliability signature is constant.
C9_FitnessDefined ==
    \A i \in 1..Len(correlations) :
        /\ ~correlations[i].nan
        /\ correlations[i].sq[1] <= correlations[i].sq[2]
        /\ ConstantRow(reliabilities[i]) => correlations[i] = ZeroFitness

-----------------------------------------------------------------------------
(* Claims about is_correlated *)

\* number of positions where two response rows differ
Disagreements(a, b) == Cardinality({ j \in 1..Len(a) : a[j] # b[j] })

-----------------------------------------------------------------------------
(* Claims about the covariance matrix *)

\* C10: in every state of a chain search the covariance matrix equals its own
\* transpose.
C10_Symmetric ==
    \A i, j \in 1..cm.n : cm.cov_matrix[i][j] = cm.cov_matrix[j][i]

-----------------------------------------------------------------------------
(* Claims about the distribution state *)

\* C11: step_size is strictly positive in every reachable state of a chain
\* search.
C11_StepSizePositive == cm.step_size = "positive"

\* a generation of the search has run: lines 77-107, or up to the statement
\* that raised
GenerationRan == cm.err = "none" /\ cm'.gen = cm.gen + 1

\* C14: a generation whose update finds a zero or negative eigenvalue in the
\* covariance matrix ends in an error, and no state of a search that goes on
\* holds an undefined path_ss, step_size or population.
C14_DegeneracySurfaced ==
    /\ [][ (GenerationRan /\ eigen_values(cm.cov_matrix) # "positive")
              => cm'.err # "none" ]_vars
    /\ [](cm.err = "none" => /\ cm.path_ss # "nan"
                             /\ cm.step_size # "nan"
                             /\ cm.individuals # "nan")

\* path_cm is stored in units of sqrt(1 - (1-c_c)**2) * sqrt(mu_w): for a
\* factor of 0 every stored vector stands for the zero vector
SamePathCm(a, b) ==
    \/ a.path_cm = b.path_cm
    \/ DirectionFactorSq(a.n, a.priorities) = << 0, 1 >>

\* C18: when a generation's update raises, mean, path_cm, path_ss, cov_matrix
\* and step_size all hold the values they had before that update.
C18_NoPartialUpdate ==
    [][ (GenerationRan /\ cm'.err # "none") =>
            /\ cm'.mean = cm.mean
            /\ SamePathCm(cm', cm)
            /\ cm'.path_ss = cm.path_ss
            /\ cm'.cov_matrix = cm.cov_matrix
            /\ cm'.step_size = cm.step_size ]_vars

Symmetric(matrix) ==
    \A i, j \in 1..Len(matrix) : matrix[i][j] = matrix[j][i]

\* C19: for a symmetric C, update_cm returns (1 - c_1 - c_mu) * C
\* + c_1 * (path_cm outer-product path_cm) + c_mu * cm_mu: entry (i, j) of the
\* rank-one term is c_1 * path_cm[i] * path_cm[j], path_cm being the vector
\* update_cm is handed (in the units of the stored path_cm the product
\* carries the square of the unit).
C19_RankOneOuterProduct ==
    [][ (GenerationRan /\ cm'.err = "none" /\ cm'.individuals = "finite"
         /\ Symmetric(cm.cov_matrix)) =>
            \A i, j \in 1..cm.n :
                cm'.cov_matrix[i][j] =
                    FAdd(FAdd(FMul(Decay(cm.n, cm.priorities), cm.cov_matrix[i][j]),
                              FMul(Frac(c_1(cm.n).num, c_1(cm.n).den),
                                   FMul(DirectionFactorSq(cm.n, cm.priorities),
                                        FMul(cm'.path_cm[i], cm'.path_cm[j])))),
                         FMul(Frac(c_mu(cm.priorities, cm.n).num,
                                   c_mu(cm.priorities, cm.n).den),
                              cm'.cm_mu[i][j])) ]_vars

-----------------------------------------------------------------------------
(* Claims about the polarity fix *)

\* C12: set_pole_of_LTFs negates the first chain exactly when the instance and
\* the model disagree on more than half of the 10 challenges of the batch (6
\* or more; 5 disagreements leave it as it is), and every other chain is
\* returned unchanged.
C12_PolarityFix ==
    [][ pc = "pole" =>
          LET d == Disagreements(responses[1], responses[2])
          IN  /\ different_LTFs'[1] = (IF 2 * d > 10 THEN Negate(different_LTFs[1])
                                       ELSE different_LTFs[1])
              /\ Len(different_LTFs') = Len(different_LTFs)
              /\ \A r \in 2..Len(different_LTFs) :
                    different_LTFs'[r] = different_LTFs[r] ]_vars

\* the fix ran on two chains for exactly 5 disagreements
C12_Witness ==
    /\ pc = "poled"
    /\ Len(different_LTFs) = 2
    /\ Disagreements(responses[1], responses[2]) = 5

-----------------------------------------------------------------------------
(* C13 *)

\* the fitness sgn * sqrt(sq) is a number strictly greater than prec >= 0
StrictlyAbove(f, prec) ==
    /\ ~f.nan
    /\ f.sgn = 1
    /\ f.sq[1] * prec.den * prec.den > prec.num * prec.num * f.sq[2]

\* C13: learn_LTF returns in the first generation in which some individual's
\* fitness is strictly greater than precision: a generation is left for the
\* return exactly when it has such an individual, the chain returned is an
\* individual of that generation with such a fitness, and the step leaves the
\* distribution state alone; a generation without one goes on to the update,
\* which is the only step that changes the distribution state, and the update
\* never runs on a generation that has one.
C13_StopsAtFirstWinner ==
    /\ [][pc = "sampled" =>
            LET above == { i \in 1..Len(correlations') :
                             StrictlyAbove(correlations'[i], cfg.precision) }
            IN  /\ pc' = "dedup" <=> above # {}
                /\ pc' = "update" <=> above = {}
                /\ pc' = "dedup" => \E i \in above : new_LTF' = individuals'[i]
                /\ individuals' = individuals
                /\ dist' = dist]_vars
    /\ [][dist' # dist => pc = "update"]_vars
    /\ [](pc = "update" =>
            \A i \in 1..Len(correlations) :
                ~StrictlyAbove(correlations[i], cfg.precision))

\* a search that converged in its second generation, after one update
C13_Witness ==
    /\ pc = "dedup"
    /\ x = 2
    /\ dist.mean = 1
    /\ \E i \in 1..Len(individuals) :
          /\ new_LTF = individuals[i]
          /\ StrictlyAbove(correlations[i], cfg.precision)

-----------------------------------------------------------------------------
(* C15 *)

\* no fitness of the generation is a number greater than precision
NoneExceeds(corrs, prec) ==
    \A i \in 1..Len(corrs) :
        \/ corrs[i].nan
        \/ corrs[i].sgn < 1
        \/ corrs[i].sq[1] * prec.den * prec.den <= prec.num * prec.num * corrs[i].sq[2]

-----------------------------------------------------------------------------
(* C17 *)

\* an update of learn_LTF that ran its five statements
UpdateRan == pc = "update" /\ pc' = "gen"

\* the parents that the just-evaluated population and its fitness allow
ParentsOfGeneration ==
    { get_parent([i \in 1..Len(individuals) |-> individuals[o[Len(individuals) + 1 - i]]],
                 cfg.parent_size, cfg.priorities) :
        o \in argsort(correlations) }

\* C17 as stated: no statement of the update reads a field that a statement
\* of the same generation has overwritten; the covariance update reads the
\* path_cm and the step-size update the path_ss from before the update.
C17_NoOverwrittenRead ==
    [][UpdateRan =>
        /\ reads'.update_mean = dist.step_size
        /\ reads'.cumulation_for_cm = dist.path_ss
        /\ reads'.cumulation_for_ss = dist.cov_matrix
        /\ reads'.update_cm = dist.path_cm
        /\ reads'.update_ss = dist.path_ss]_vars

\* C17, amended: the five statements use the one parent computed from the
\* ranking of the just-evaluated population and run one after the other on
\* self: the mean update reads the step_size, the path_cm update the path_ss
\* and the path_ss update the cov_matrix from before the update, while the
\* covariance update reads the path_cm and the step-size update the path_ss
\* that this generation has just written.
C17_SequentialReads ==
    [][UpdateRan =>
        /\ parent' \in ParentsOfGeneration
        /\ individuals' = individuals
        /\ reads'.update_mean = dist.step_size
        /\ reads'.cumulation_for_cm = dist.path_ss
        /\ reads'.cumulation_for_ss = dist.cov_matrix
        /\ reads'.update_cm = dist'.path_cm
        /\ reads'.update_cm = dist.path_cm + 1
        /\ reads'.update_ss = dist'.path_ss
        /\ reads'.update_ss = dist.path_ss + 1]_vars

\* the second update of a search has run
C17_Witness ==
    /\ pc = "gen"
    /\ parent # NoParent
    /\ dist.step_size = 2
    /\ reads.update_mean = 1
    /\ reads.update_cm = 2
    /\ reads.update_ss = 2

-----------------------------------------------------------------------------
(* C20 *)

\* fitness a may stand before fitness b in a ranking by non-increasing
\* fitness; an undefined fitness counts as some value that is at most 0, the
\* worst case of a signature without information
MayPrecede(a, b) ==
    IF a.nan
    THEN b.nan \/ b.sgn <= 0
    ELSE b.nan \/ ~FitnessLess(a, b)

\* the rankings of the population by non-increasing fitness
Rankings(corrs) ==
    { o \in PermutationsOf(Len(corrs)) :
        \A i, j \in 1..Len(corrs) : i < j => MayPrecede(corrs[o[i]], corrs[o[j]]) }

\* C20: the parent that the update is fed is the sum over the first
\* parent_size places of a ranking of the just-evaluated population by
\* non-increasing fitness of priorities[i] times the individual at place i,
\* whatever the fitness vector, undefined entries included.
C20_ParentOfFittest ==
    [][UpdateRan =>
        \E o \in Rankings(correlations) :
            parent' = [j \in 1..N(cfg) |->
                          FSum([i \in 1..cfg.parent_size |->
                                  Frac(cfg.priorities[i] * individuals[o[i]][j], 2)])]]_vars

-----------------------------------------------------------------------------
(* C16 *)

CoefficientOf(d, key) == d[CHOOSE i \in 1..Len(d) : d[i][1] = key][2]

RECURSIVE SetSum(_, _)
SetSum(f, S) ==
    IF S = {} THEN 0
    ELSE LET a == CHOOSE a \in S : TRUE
         IN  f[a] + SetSum(f, S \ {a})

\* the product of two polynomials under X^2 = 1: the coefficient of an index
\* set is the sum of c1 * c2 over all pairs of monomials that reduce to it
PolyMul(p, q) ==
    [key \in { (a \ b) \cup (b \ a) : a \in DOMAIN p, b \in DOMAIN q } |->
        LET S == { a \in DOMAIN p : ((a \ key) \cup (key \ a)) \in DOMAIN q }
        IN  SetSum([a \in S |-> p[a] * q[(a \ key) \cup (key \ a)]], S)]

RECURSIVE PolyPower(_, _)
PolyPower(p, k) == IF k = 1 THEN p ELSE PolyMul(PolyPower(p, k - 1), p)

\* C16: monomials_exp(mono, k) is the k-th power of the sum mono under
\* X^2 = 1: its keys are the index sets that k monomials of mono reduce to,
\* and the coefficient of each is the sum of the coefficient products of all
\* k-tuples that reduce to it.
C16_KthPower ==
    mf.k > 0 /\ mf.done =>
        LET power == PolyPower([key \in { mf.mono[i][1] : i \in 1..Len(mf.mono) } |->
                                   CoefficientOf(mf.mono, key)], mf.k)
        IN  /\ { mf.res[i][1] : i \in 1..Len(mf.res) } = DOMAIN power
            /\ \A i \in 1..Len(mf.res) : mf.res[i][2] = power[mf.res[i][1]]

-----------------------------------------------------------------------------
(* C21 *)

\* the squared norm of a vector of whole numbers
NormSq(v) == SumSeq([j \in 1..Len(v) |-> v[j] * v[j]])

\* C21: cumulation_for_cm returns the old path_cm times (1 - c_c), c_c = 4/n,
\* plus sqrt(1 - (1-c_c)^2) * sqrt(mu_w) * parent exactly when the norm of
\* the path_ss from before this generation's path_ss update is strictly below
\* 1.5 * sqrt(n), that is when 4 * norm^2 < 9 * n; otherwise it returns the
\* decayed path_cm alone.
C21_StallGuard ==
    [][cm'.gen = cm.gen + 1 =>
        /\ DirectionFactorSq(cm.n, cm.priorities)
             = Frac(8 * (cm.n - 2) * 4, cm.n * cm.n * SumSquares(cm.priorities))
        /\ \A j \in 1..cm.n :
              cm'.path_cm[j] =
                  IF 4 * NormSq(cm.path_ss) < 9 * cm.n
                  THEN FAdd(FMul(Frac(cm.n - 4, cm.n), cm.path_cm[j]), cm'.par[j])
                  ELSE FMul(Frac(cm.n - 4, cm.n), cm.path_cm[j])]_vars

\* the second generation of a chain of length 4 started with a path_ss of
\* norm 3 = 1.5 * sqrt(4) or more: path_cm is the decayed path alone (0 for
\* c_c = 1), without the direction of its parent
C21_Witness ==
    /\ cm.gen = 2
    /\ cm.n = 4
    /\ \E j \in 1..cm.n : cm.par[j] # << 0, 1 >>
    /\ cm.path_cm = FZeros(cm.n)

-----------------------------------------------------------------------------
(* C22 *)

\* C22: the distribution state is never reset between chain searches: from
\* the return of one learn_LTF call, through the check of its chain (accepted
\* or not) and the entry of the next call up to its first reproduce, mean,
\* cov_matrix, step_size, path_cm and path_ss keep their values, so a later
\* search starts from what the one before left and not from the state of
\* __init__; after construction the fields never go back to an earlier
\* version.
C22_NoResetBetweenChains ==
    /\ [][(pc = "dedup" \/ pc = "learn" \/ pc = "gen") => (dist' = dist)]_vars
    /\ [][(pc = "sampled" /\ pc' = "dedup") => (dist' = dist)]_vars
    /\ [][pc = "learn" /\ pc' = "gen" /\ searches >= 1 =>
            /\ searches' = searches + 1
            /\ dist' = dist
            /\ x' = 0]_vars
    /\ [][pc # "new" =>
            /\ dist'.mean >= dist.mean
            /\ dist'.cov_matrix >= dist.cov_matrix
            /\ dist'.step_size >= dist.step_size
            /\ dist'.path_cm >= dist.path_cm
            /\ dist'.path_ss >= dist.path_ss]_vars

\* the second search is entered with the distribution that the update of the
\* first search left
C22_Witness ==
    /\ searches = 2
    /\ pc = "gen"
    /\ x = 0
    /\ num_of_LTFs = 1
    /\ dist # InitialDist
    /\ dist.mean >= 1

-----------------------------------------------------------------------------
(* C23 *)

\* the indices of the generation whose fitness is above precision
Above == { i \in 1..Len(correlations) : StrictlyAbove(correlations[i], cfg.precision) }

\* C23: when several individuals of the converging generation have a fitness
\* above precision, learn_LTF returns the one with the highest population
\* index among them, whatever their fitness values: it need not be the
\* individual with the highest fitness.
C23_LastWinnerReturned ==
    /\ [][(pc = "sampled" /\ pc' = "dedup") =>
            LET above == { i \in 1..Len(correlations') :
                             StrictlyAbove(correlations'[i], cfg.precision) }
            IN  \E last \in above :
                   /\ \A i \in above : i <= last
                   /\ new_LTF' = individuals[last]]_vars
    /\ [](pc = "dedup" /\ Above # {} =>
            \E last \in Above : /\ \A i \in Above : i <= last
                                /\ new_LTF = individuals[last])

\* both individuals are above precision, the first has the higher fitness,
\* and the second, another vector, is returned
C23_Witness ==
    /\ pc = "dedup"
    /\ Above = {1, 2}
    /\ FitnessLess(correlations[2], correlations[1])
    /\ individuals[1] # individuals[2]
    /\ new_LTF = individuals[2]

-----------------------------------------------------------------------------
(* C24 *)

\* the responses of layer i when every layer from the root down to it is
\* evaluated, PUF j of a layer with the response of PUF floor(j/2) of the
\* layer above as interposed bit
RECURSIVE LayerResponses(_, _)
LayerResponses(layers, i) ==
    IF i = 0 THEN << layers[1][1] >>
    ELSE LET above == LayerResponses(layers, i - 1)
         IN  [jj \in 1..Len(layers[i + 1]) |->
                 layers[i + 1][jj][above[((jj - 1) \div 2) + 1]]]

\* C24: eval of a tree of depth >= 1 evaluates every layer 0..depth, each
\* PUF j of layer i+1 with the response of PUF floor(j/2) of layer i
\* interposed, and returns the product of the responses of layer depth.
C24_TreeEvalToLastLayer ==
    sim.class = "InterposeBinaryTree" /\ sim.done /\ sim.depth >= 1 =>
        /\ sim.evaluated = 0..sim.depth
        /\ sim.result = Prod(LayerResponses(sim.layers, sim.depth))

-----------------------------------------------------------------------------
(* C25 *)

\* k when the layer has an XOR (more than one chain), 0 otherwise
XorsOf(k) == IF k > 1 THEN k ELSE 0

\* C25: for every Interpose3PUF(n, k_up, k_middle, k_down) the up, middle and
\* down XOR Arbiter PUFs have k_up, k_middle and k_down chains, chains is the
\* total number of chains of the three layers, and xors is the sum of those
\* of k_up, k_middle, k_down that are greater than 1.
C25_Bookkeeping ==
    sim.class = "Interpose3PUF" /\ sim.built =>
        /\ sim.up.k = sim.k_up
        /\ sim.middle.k = sim.k_middle
        /\ sim.down.k = sim.k_down
        /\ sim.chains = sim.up.k + sim.middle.k + sim.down.k
        /\ sim.xors = XorsOf(sim.k_up) + XorsOf(sim.k_middle) + XorsOf(sim.k_down)

=============================================================================
